---- MODULE Spec2Model ----
(***************************************************************************)
(* AutoMedAI agent orchestration core: the CentralAgent coordinator, its   *)
(* registry of specialist agents, the specialist agents' query methods and *)
(* the CentralReasoningAgentMock aggregator.                               *)
(*                                                                         *)
(* Text is modelled as a sequence of one-character strings so that         *)
(* slicing (symptoms[:50]), lower() and the substring test ("x" in s) are  *)
(* computed as the Python code computes them.                              *)
(***************************************************************************)
EXTENDS Integers, Sequences, FiniteSets, TLC

----------------------------------------------------------------------------
\* Bounds of the model.

\* number of calls of CentralAgent.query in one behaviour
MaxCases == 1

\* number of calls of CentralAgent.add_specialist in one behaviour
MaxAdds == 1

\* number of runs of CentralAgent.initialize in one behaviour
MaxInits == 1

\* number of calls of CentralAgent.cleanup in one behaviour
MaxCleanups == 1

\* length of the list of findings of a direct call of synthesize_findings
MaxFindings == 2
MaxCalls == 2
MaxRequests == 2

----------------------------------------------------------------------------
\* Text literals of the source, as character sequences.

\* 'chest pain' (10 characters)
CHEST_PAIN ==
   <<
      "c", "h", "e", "s", "t", " ", "p", "a", "i", "n" >>

\* "Mock cardiac assessment for symptoms: '" (39 characters)
CardioPrefix ==
   <<
      "M", "o", "c", "k", " ", "c", "a", "r", "d", "i", "a", "c", " ", "a", "s", "s", "e", "s",
      "s", "m", "e", "n", "t", " ", "f", "o", "r", " ", "s", "y", "m", "p", "t", "o", "m", "s",
      ":", " ", "'" >>

\* "...'. No immediate red flags detected by mock." (46 characters)
CardioSuffix ==
   <<
      ".", ".", ".", "'", ".", " ", "N", "o", " ", "i", "m", "m", "e", "d", "i", "a", "t", "e",
      " ", "r", "e", "d", " ", "f", "l", "a", "g", "s", " ", "d", "e", "t", "e", "c", "t", "e",
      "d", " ", "b", "y", " ", "m", "o", "c", "k", "." >>

\* " Noted 'chest pain', further evaluation recommended if real." (60 characters)
CardioNote ==
   <<
      " ", "N", "o", "t", "e", "d", " ", "'", "c", "h", "e", "s", "t", " ", "p", "a", "i", "n",
      "'", ",", " ", "f", "u", "r", "t", "h", "e", "r", " ", "e", "v", "a", "l", "u", "a", "t",
      "i", "o", "n", " ", "r", "e", "c", "o", "m", "m", "e", "n", "d", "e", "d", " ", "i", "f",
      " ", "r", "e", "a", "l", "." >>

\* "Mock neurological evaluation for symptoms: '" (44 characters)
NeuroPrefix ==
   <<
      "M", "o", "c", "k", " ", "n", "e", "u", "r", "o", "l", "o", "g", "i", "c", "a", "l", " ",
      "e", "v", "a", "l", "u", "a", "t", "i", "o", "n", " ", "f", "o", "r", " ", "s", "y", "m",
      "p", "t", "o", "m", "s", ":", " ", "'" >>

\* "...'. No specific neurological concerns from mock." (50 characters)
NeuroSuffix ==
   <<
      ".", ".", ".", "'", ".", " ", "N", "o", " ", "s", "p", "e", "c", "i", "f", "i", "c", " ",
      "n", "e", "u", "r", "o", "l", "o", "g", "i", "c", "a", "l", " ", "c", "o", "n", "c", "e",
      "r", "n", "s", " ", "f", "r", "o", "m", " ", "m", "o", "c", "k", "." >>

\* 'headache' (8 characters)
HEADACHE ==
   <<
      "h", "e", "a", "d", "a", "c", "h", "e" >>

\* 'dizziness' (9 characters)
DIZZINESS ==
   <<
      "d", "i", "z", "z", "i", "n", "e", "s", "s" >>

\* " Noted 'headache'." (18 characters)
NeuroNoteHeadache ==
   <<
      " ", "N", "o", "t", "e", "d", " ", "'", "h", "e", "a", "d", "a", "c", "h", "e", "'", "." >>

\* " Noted 'dizziness'." (19 characters)
NeuroNoteDizziness ==
   <<
      " ", "N", "o", "t", "e", "d", " ", "'", "d", "i", "z", "z", "i", "n", "e", "s", "s", "'",
      "." >>

\* "Mock orthopedic check for symptoms: '" (37 characters)
OrthoPrefix ==
   <<
      "M", "o", "c", "k", " ", "o", "r", "t", "h", "o", "p", "e", "d", "i", "c", " ", "c", "h",
      "e", "c", "k", " ", "f", "o", "r", " ", "s", "y", "m", "p", "t", "o", "m", "s", ":", " ",
      "'" >>

\* "...'. " (6 characters)
OrthoSuffix ==
   <<
      ".", ".", ".", "'", ".", " " >>

\* 'knee pain' (9 characters)
KNEE_PAIN ==
   <<
      "k", "n", "e", "e", " ", "p", "a", "i", "n" >>

\* 'joint pain' (10 characters)
JOINT_PAIN ==
   <<
      "j", "o", "i", "n", "t", " ", "p", "a", "i", "n" >>

\* 'Possible musculoskeletal issue noted by mock.' (45 characters)
OrthoNoteYes ==
   <<
      "P", "o", "s", "s", "i", "b", "l", "e", " ", "m", "u", "s", "c", "u", "l", "o", "s", "k",
      "e", "l", "e", "t", "a", "l", " ", "i", "s", "s", "u", "e", " ", "n", "o", "t", "e", "d",
      " ", "b", "y", " ", "m", "o", "c", "k", "." >>

\* 'No obvious orthopedic indicators from mock.' (43 characters)
OrthoNoteNo ==
   <<
      "N", "o", " ", "o", "b", "v", "i", "o", "u", "s", " ", "o", "r", "t", "h", "o", "p", "e",
      "d", "i", "c", " ", "i", "n", "d", "i", "c", "a", "t", "o", "r", "s", " ", "f", "r", "o",
      "m", " ", "m", "o", "c", "k", "." >>

\* 'Initial assessment in progress' (30 characters)
GPHypothesis ==
   <<
      "I", "n", "i", "t", "i", "a", "l", " ", "a", "s", "s", "e", "s", "s", "m", "e", "n", "t",
      " ", "i", "n", " ", "p", "r", "o", "g", "r", "e", "s", "s" >>

\* 'No hypothesis provided.' (23 characters): the default of finding.get("hypothesis", ...)
\* in a report block
NoHypothesis ==
   <<
      "N", "o", " ", "h", "y", "p", "o", "t", "h", "e", "s", "i", "s", " ", "p", "r", "o", "v",
      "i", "d", "e", "d", "." >>

\* 'Emergency assessment in progress' (32 characters)
EMHypothesis ==
   <<
      "E", "m", "e", "r", "g", "e", "n", "c", "y", " ", "a", "s", "s", "e", "s", "s", "m", "e",
      "n", "t", " ", "i", "n", " ", "p", "r", "o", "g", "r", "e", "s", "s" >>

\* 'severe chest pain and shortness of breath' (41 characters)
TextScenario ==
   <<
      "s", "e", "v", "e", "r", "e", " ", "c", "h", "e", "s", "t", " ", "p", "a", "i", "n", " ",
      "a", "n", "d", " ", "s", "h", "o", "r", "t", "n", "e", "s", "s", " ", "o", "f", " ", "b",
      "r", "e", "a", "t", "h" >>

\* 'Severe CHEST PAIN' (17 characters)
TextUpper ==
   <<
      "S", "e", "v", "e", "r", "e", " ", "C", "H", "E", "S", "T", " ", "P", "A", "I", "N" >>

\* 'xxxxxxxxxxxxxxxxxxxxxxxxxxxxxxxxxxxxxxxxxxxxxxxxxxxx then chest pain' (68 characters)
TextLate ==
   <<
      "x", "x", "x", "x", "x", "x", "x", "x", "x", "x", "x", "x", "x", "x", "x", "x", "x", "x",
      "x", "x", "x", "x", "x", "x", "x", "x", "x", "x", "x", "x", "x", "x", "x", "x", "x", "x",
      "x", "x", "x", "x", "x", "x", "x", "x", "x", "x", "x", "x", "x", "x", "x", "x", " ", "t",
      "h", "e", "n", " ", "c", "h", "e", "s", "t", " ", "p", "a", "i", "n" >>

\* 'yyyyyyyyyyyyyyyyyyyyyyyyyyyyyyyyyyyyyyyyyyyy chest pain now' (59 characters)
TextStraddle ==
   <<
      "y", "y", "y", "y", "y", "y", "y", "y", "y", "y", "y", "y", "y", "y", "y", "y", "y", "y",
      "y", "y", "y", "y", "y", "y", "y", "y", "y", "y", "y", "y", "y", "y", "y", "y", "y", "y",
      "y", "y", "y", "y", "y", "y", "y", "y", " ", "c", "h", "e", "s", "t", " ", "p", "a", "i",
      "n", " ", "n", "o", "w" >>

\* 'mild chest discomfort and knee pain' (35 characters)
TextDiscomfort ==
   <<
      "m", "i", "l", "d", " ", "c", "h", "e", "s", "t", " ", "d", "i", "s", "c", "o", "m", "f",
      "o", "r", "t", " ", "a", "n", "d", " ", "k", "n", "e", "e", " ", "p", "a", "i", "n" >>

\* 'Headache with dizziness' (23 characters)
TextHeadache ==
   <<
      "H", "e", "a", "d", "a", "c", "h", "e", " ", "w", "i", "t", "h", " ", "d", "i", "z", "z",
      "i", "n", "e", "s", "s" >>

\* '' (0 characters)
TextEmpty ==
<< >>

----------------------------------------------------------------------------
\* String operations of Python used by the code.

\* str.lower() on one character (ASCII letters; every other character maps
\* to itself)
LowerChar(c) ==
   CASE c = "A" -> "a" [] c = "B" -> "b" [] c = "C" -> "c" [] c = "D" -> "d"
     [] c = "E" -> "e" [] c = "F" -> "f" [] c = "G" -> "g" [] c = "H" -> "h"
     [] c = "I" -> "i" [] c = "J" -> "j" [] c = "K" -> "k" [] c = "L" -> "l"
     [] c = "M" -> "m" [] c = "N" -> "n" [] c = "O" -> "o" [] c = "P" -> "p"
     [] c = "Q" -> "q" [] c = "R" -> "r" [] c = "S" -> "s" [] c = "T" -> "t"
     [] c = "U" -> "u" [] c = "V" -> "v" [] c = "W" -> "w" [] c = "X" -> "x"
     [] c = "Y" -> "y" [] c = "Z" -> "z" [] OTHER -> c

\* str.lower()
Lower(s) == [i \in 1..Len(s) |-> LowerChar(s[i])]

\* the slice s[:n]
Slice(s, n) == SubSeq(s, 1, IF Len(s) < n THEN Len(s) ELSE n)

\* the Python test  needle in hay  on strings
Contains(hay, needle) ==
   \E i \in 0..(Len(hay) - Len(needle)) :
      \A j \in 1..Len(needle) : hay[i + j] = needle[j]

\* dict.get(key, default)
Get(d, key, default) == IF key \in DOMAIN d THEN d[key] ELSE default

\* width of the slice symptoms[:50] echoed into a mock hypothesis
SliceLen == 50

\* the value None of Python
None == "None"

\* None where a text is expected: a text is a sequence of characters, and
\* this sequence is not one
NoneText == <<None>>

----------------------------------------------------------------------------
\* Agent classes.  _initialize_specialist and add_specialist take a class
\* (Type[AgentInterface]); the classes of the model are the five classes of
\* specialist_agents.py and subclasses of them that override one method.

ShippedClasses ==
   {"GeneralPractitionerAgent", "EmergencyMedicineAgent",
    "CardioBotMock", "NeuroBotMock", "OrthoBotMock"}

\* a GeneralPractitionerAgent whose query reports needs_emergency_care: True
\* a GeneralPractitionerAgent, a NeuroBotMock, an EmergencyMedicineAgent whose
\*   query raises after the increment of cases_handled
\* a CardioBotMock whose query returns hypothesis: None
\* an OrthoBotMock whose initialize and cleanup await I/O
\* a CardioBotMock whose initialize awaits I/O and then raises
\* a NeuroBotMock whose cleanup raises
SubClasses ==
   {"UrgentGP", "FaultyGP", "FaultyNeuro", "FaultyEM", "NullCardio",
    "SlowOrtho", "BrokenCardio", "LeakyNeuro"}

Classes == ShippedClasses \cup SubClasses

\* the classes add_specialist is called with
AddClasses == {"GeneralPractitionerAgent", "CardioBotMock"} \cup SubClasses

\* the class of specialist_agents.py that cls is or derives from
BaseClass(cls) ==
   CASE cls \in ShippedClasses -> cls
     [] cls \in {"UrgentGP", "FaultyGP"} -> "GeneralPractitionerAgent"
     [] cls \in {"FaultyNeuro", "LeakyNeuro"} -> "NeuroBotMock"
     [] cls = "SlowOrtho" -> "OrthoBotMock"
     [] cls = "FaultyEM" -> "EmergencyMedicineAgent"
     [] cls \in {"BrokenCardio", "NullCardio"} -> "CardioBotMock"

\* isinstance(agent, base)
isinstance(agent, base) == BaseClass(agent.cls) = base

\* IsMockSpecialist with OrthoBotMock left out of the tuple of classes
IsMockSpecialist_NoOrtho(agent) ==
   BaseClass(agent.cls) \in {"CardioBotMock", "NeuroBotMock"}

\* isinstance(agent, (CardioBotMock, NeuroBotMock, OrthoBotMock))
IsMockSpecialist(agent) ==
   BaseClass(agent.cls) \in {"CardioBotMock", "NeuroBotMock", "OrthoBotMock"}

QueryFaults(cls) == cls \in {"FaultyGP", "FaultyNeuro", "FaultyEM"}
SetupSuspends(cls) == cls \in {"SlowOrtho", "BrokenCardio"}
SetupFaults(cls) == cls = "BrokenCardio"
TeardownSuspends(cls) == cls = "SlowOrtho"
TeardownFaults(cls) == cls = "LeakyNeuro"

\* agent_name set by the constructor: the mock classes use a fixed name, a
\* SpecialistAgent uses its lower-cased specialty and a fresh uuid prefix
\* (id stands for the uuid)
AgentName(cls, id) ==
   CASE BaseClass(cls) = "GeneralPractitionerAgent" ->
           "generalpractitioner-" \o ToString(id)
     [] BaseClass(cls) = "EmergencyMedicineAgent" ->
           "emergencymedicine-" \o ToString(id)
     [] OTHER -> BaseClass(cls)

\* a freshly constructed agent: its identity, class, name and state
NewAgent(cls, id) ==
   [id |-> id, cls |-> cls, agent_name |-> AgentName(cls, id),
    cases_handled |-> 0, torn_down |-> FALSE]

----------------------------------------------------------------------------
\* The findings returned by the query methods (pure part of each query).

\* GeneralPractitionerAgent.query asking for emergency care when the
\* symptoms mention chest pain
GeneralPractitionerAgent_query_FlagsChestPain(agent, symptoms) ==
   [agent_name |-> agent.agent_name,
    specialty |-> "GeneralPractitioner",
    hypothesis |-> GPHypothesis,
    confidence |-> "0.0",
    details |-> "Analyzing reported symptoms",
    recommended_actions |-> <<"Await specialist consultation">>,
    needs_emergency_care |-> Contains(Lower(symptoms), CHEST_PAIN)]

GeneralPractitionerAgent_query(agent, symptoms) ==
   [agent_name |-> agent.agent_name,
    specialty |-> "GeneralPractitioner",
    hypothesis |-> GPHypothesis,
    confidence |-> "0.0",
    details |-> "Analyzing reported symptoms",
    recommended_actions |-> <<"Await specialist consultation">>,
    needs_emergency_care |-> (agent.cls = "UrgentGP")]

EmergencyMedicineAgent_query(agent, symptoms) ==
   [agent_name |-> agent.agent_name,
    specialty |-> "EmergencyMedicine",
    hypothesis |-> EMHypothesis,
    confidence |-> "0.0",
    details |-> "Evaluating emergency status",
    recommended_actions |-> << >>,
    emergency_response_needed |-> FALSE]

\* CardioBotMock.query looking for "chest pain" in the slice it echoes
\* instead of in the whole text
CardioBotMock_query_SliceOnly(agent, symptoms) ==
   [agent_name |-> agent.agent_name,
    hypothesis |->
       IF agent.cls = "NullCardio" THEN NoneText
       ELSE CardioPrefix \o Slice(symptoms, SliceLen) \o CardioSuffix
            \o (IF Contains(Lower(Slice(symptoms, SliceLen)), CHEST_PAIN)
                THEN CardioNote ELSE << >>),
    confidence |-> "0.3",
    details |-> "This is a mock response from CardioBotMock."]

CardioBotMock_query(agent, symptoms) ==
   [agent_name |-> agent.agent_name,
    hypothesis |->
       IF agent.cls = "NullCardio" THEN NoneText
       ELSE CardioPrefix \o Slice(symptoms, SliceLen) \o CardioSuffix
            \o (IF Contains(Lower(symptoms), CHEST_PAIN)
                THEN CardioNote ELSE << >>),
    confidence |-> "0.3",
    details |-> "This is a mock response from CardioBotMock."]

\* NeuroBotMock.query with a confidence that grows with the cases the agent
\* has handled
NeuroBotMock_query_Stateful(agent, symptoms) ==
   [agent_name |-> agent.agent_name,
    hypothesis |->
       NeuroPrefix \o Slice(symptoms, SliceLen) \o NeuroSuffix
       \o (IF Contains(Lower(symptoms), HEADACHE) THEN NeuroNoteHeadache
           ELSE IF Contains(Lower(symptoms), DIZZINESS) THEN NeuroNoteDizziness
           ELSE << >>),
    confidence |-> IF agent.cases_handled > 1 THEN "0.3" ELSE "0.25",
    details |-> "This is a mock response from NeuroBotMock."]

NeuroBotMock_query(agent, symptoms) ==
   [agent_name |-> agent.agent_name,
    hypothesis |->
       NeuroPrefix \o Slice(symptoms, SliceLen) \o NeuroSuffix
       \o (IF Contains(Lower(symptoms), HEADACHE) THEN NeuroNoteHeadache
           ELSE IF Contains(Lower(symptoms), DIZZINESS) THEN NeuroNoteDizziness
           ELSE << >>),
    confidence |-> "0.25",
    details |-> "This is a mock response from NeuroBotMock."]

OrthoBotMock_query(agent, symptoms) ==
   [agent_name |-> agent.agent_name,
    hypothesis |->
       OrthoPrefix \o Slice(symptoms, SliceLen) \o OrthoSuffix
       \o (IF Contains(Lower(symptoms), KNEE_PAIN)
              \/ Contains(Lower(symptoms), JOINT_PAIN)
           THEN OrthoNoteYes ELSE OrthoNoteNo),
    confidence |-> "0.2",
    details |-> "This is a mock response from OrthoBotMock."]

\* agent.query(symptoms, patient_id): the finding, by dynamic dispatch
Finding(agent, symptoms) ==
   CASE BaseClass(agent.cls) = "GeneralPractitionerAgent" ->
           GeneralPractitionerAgent_query(agent, symptoms)
     [] BaseClass(agent.cls) = "EmergencyMedicineAgent" ->
           EmergencyMedicineAgent_query(agent, symptoms)
     [] BaseClass(agent.cls) = "CardioBotMock" ->
           CardioBotMock_query(agent, symptoms)
     [] BaseClass(agent.cls) = "NeuroBotMock" ->
           NeuroBotMock_query(agent, symptoms)
     [] BaseClass(agent.cls) = "OrthoBotMock" ->
           OrthoBotMock_query(agent, symptoms)

----------------------------------------------------------------------------
\* CentralReasoningAgentMock.synthesize_findings

TriageDefault ==
   "Mock Triage: Review by a human telemedicine provider is recommended."

TriageCardiac ==
   "Mock Triage: Potential cardiac concern noted. Prioritize human review."

\* ShownConfidence with the truth test  finding.get("confidence") or ...
\* instead of the test  is None : a confidence of 0 falls back too
ShownConfidence_Falsy(finding) ==
   IF Get(finding, "confidence", None) \in {None, "0", "0.0"}
   THEN Get(finding, "confidence_mock", "N/A")
   ELSE finding.confidence

\* the confidence shown in a report block
ShownConfidence(finding) ==
   IF Get(finding, "confidence", None) = None
   THEN Get(finding, "confidence_mock", "N/A")
   ELSE finding.confidence

\* one element of summary_parts for a finding
ReportBlock(finding) ==
   [part |-> "report",
    agent_name |-> Get(finding, "agent_name", "UnknownAgent"),
    hypothesis |-> Get(finding, "hypothesis", NoHypothesis),
    confidence |-> ShownConfidence(finding),
    details |-> Get(finding, "details", "")]

\* SummaryParts without the branch for an empty list: the section line is
\* followed by nothing
SummaryParts_EmptySection(patient_symptoms, specialist_findings, patient_id) ==
   << [part |-> "header", patient_id |-> patient_id],
      [part |-> "symptoms", symptoms |-> patient_symptoms],
      [part |-> "section"] >>
   \o [i \in 1..Len(specialist_findings) |->
         ReportBlock(specialist_findings[i])]

\* summary_parts: the header, the symptoms line, the section line, then the
\* "no reports" line or one block per finding
SummaryParts(patient_symptoms, specialist_findings, patient_id) ==
   << [part |-> "header", patient_id |-> patient_id],
      [part |-> "symptoms", symptoms |-> patient_symptoms],
      [part |-> "section"] >>
   \o (IF specialist_findings = << >>
       THEN << [part |-> "no_reports"] >>
       ELSE [i \in 1..Len(specialist_findings) |->
               ReportBlock(specialist_findings[i])])

\* CardiacConcern without the test of the agent name
CardiacConcern_AnyAgent(specialist_findings) ==
   \E i \in 1..Len(specialist_findings) :
      /\ Get(specialist_findings[i], "hypothesis", << >>) # NoneText
      /\ Contains(Lower(Get(specialist_findings[i], "hypothesis", << >>)),
                  CHEST_PAIN)

\* finding i is one the generator of the triage rule evaluates, and its
\* test is true
CardiacMatch(specialist_findings, i) ==
   /\ Get(specialist_findings[i], "agent_name", None) = "CardioBotMock"
   /\ Get(specialist_findings[i], "hypothesis", << >>) # NoneText
   /\ Contains(Lower(Get(specialist_findings[i], "hypothesis", << >>)),
               CHEST_PAIN)

\* the rule of the triage recommendation
CardiacConcern(specialist_findings) ==
   \E i \in 1..Len(specialist_findings) :
      CardiacMatch(specialist_findings, i)

\* synthesize_findings raises: any(...) comes to a finding of CardioBotMock
\* whose hypothesis is None (None has no lower()) before it has found a match
SynthesisFaults(specialist_findings) ==
   \E i \in 1..Len(specialist_findings) :
      /\ Get(specialist_findings[i], "agent_name", None) = "CardioBotMock"
      /\ Get(specialist_findings[i], "hypothesis", << >>) = NoneText
      /\ \A j \in 1..(i - 1) : ~CardiacMatch(specialist_findings, j)

synthesize_findings(patient_symptoms, specialist_findings, patient_id) ==
   [patient_id |-> patient_id,
    overall_summary |->
       SummaryParts(patient_symptoms, specialist_findings, patient_id),
    consolidated_hypotheses_mock |-> "Multiple mock hypotheses - see summary.",
    triage_recommendation_mock |->
       IF CardiacConcern(specialist_findings)
       THEN TriageCardiac ELSE TriageDefault,
    confidence_overall_mock |-> "0.1",
    notes |-> "This is a mock synthesis from Phase 2. LLM reasoning will be added later."]

----------------------------------------------------------------------------
\* State.

VARIABLES
   specialist_agents,      \* CentralAgent.specialist_agents, in insertion order
   active_specialists,     \* CentralAgent.state["active_specialists"]
   cases_in_progress,      \* CentralAgent.state["cases_in_progress"]
   total_cases_handled,    \* CentralAgent.state["total_cases_handled"]
   next_id,                \* identity (and uuid) of the next agent constructed
   lc_op,                  \* lifecycle coroutine running: initialize,
                           \*   add_specialist, cleanup, or idle
   lc_queue,               \* classes initialize has still to register
   lc_pending,             \* agent whose initialize() is awaited (at most one)
   lc_outcome,             \* how the last lifecycle coroutine ended
   lc_last,                \* the lifecycle coroutine started last
   cleanup_tasks,          \* the tasks asyncio.gather runs for cleanup
   pc,                     \* position of CentralAgent.query
   symptoms,               \* query's argument symptoms
   patient_id,             \* query's argument patient_id
   initial_assessment,     \* query's local (at most one finding)
   specialist_assessments, \* query's local
   cursor,                 \* position of the loop over specialist_agents
   invoked,                \* ids of the agents whose query this request called
   fault,                  \* exception in flight, or "none"
   response,               \* the response query returns (at most one)
   n_cases, n_adds, n_inits, n_cleanups,  \* calls made so far
   agg_findings,           \* argument specialist_findings of a direct call of
                           \*   synthesize_findings
   agg_result,             \* what that call returned (at most one)
   reports_returned,       \* history: calls of query that returned a response
   errors_returned,        \* history: calls of query that raised
   retired_cases,          \* history: cases_handled of the General
                           \*   Practitioner agents cleanup has dropped
   flagged_requests,       \* history: requests whose initial assessment had
                           \*   needs_emergency_care true
   changed_in_service,     \* history: the registry was changed after the
                           \*   first call of query
   probe_agent,            \* an agent whose query is called directly (at
                           \*   most one)
   probe_calls             \* the direct calls made: arguments and finding

coordVars == <<specialist_agents, active_specialists, cases_in_progress,
               total_cases_handled, next_id>>
lcVars == <<lc_op, lc_queue, lc_pending, lc_outcome, lc_last, cleanup_tasks>>
reqVars == <<pc, symptoms, patient_id, initial_assessment,
             specialist_assessments, cursor, invoked, fault, response>>
countVars == <<n_cases, n_adds, n_inits, n_cleanups>>
aggVars == <<agg_findings, agg_result>>
histVars == <<reports_returned, errors_returned, retired_cases,
             flagged_requests, changed_in_service>>
probeVars == <<probe_agent, probe_calls>>
vars == <<coordVars, lcVars, reqVars, countVars, aggVars, histVars, probeVars>>

\* the symptom text requests are made with when the registry is built from
\* any classes (the application below is run with all the texts)
SymptomTexts == {TextScenario}

\* the classes initialize registers, in order
InitializeClasses ==
   <<"GeneralPractitionerAgent", "EmergencyMedicineAgent",
     "CardioBotMock", "NeuroBotMock", "OrthoBotMock">>

\* CentralAgent.__init__, then the module level of main.py
InitCoordinator ==
   /\ specialist_agents = << >>
   /\ active_specialists = << >>
   /\ cases_in_progress = 0
   /\ total_cases_handled = 0
   /\ next_id = 1
   /\ lc_op = "idle"
   /\ lc_queue = << >>
   /\ lc_pending = << >>
   /\ lc_outcome = "none"
   /\ lc_last = "none"
   /\ cleanup_tasks = << >>
   /\ pc = "idle"
   /\ symptoms = << >>
   /\ patient_id = ""
   /\ initial_assessment = << >>
   /\ specialist_assessments = << >>
   /\ cursor = 0
   /\ invoked = << >>
   /\ fault = "none"
   /\ response = << >>
   /\ n_cases = 0
   /\ n_adds = 0
   /\ n_inits = 0
   /\ n_cleanups = 0
   /\ reports_returned = 0
   /\ errors_returned = 0
   /\ retired_cases = 0
   /\ flagged_requests = 0
   /\ changed_in_service = FALSE

\* the initial state: no direct call of synthesize_findings or of an agent's
\* query is made
Init ==
   /\ InitCoordinator
   /\ agg_findings = << >>
   /\ agg_result = << >>
   /\ probe_agent = << >>
   /\ probe_calls = << >>

\* the event loop runs one coroutine at a time: another coroutine or request
\* runs only while the lifecycle coroutine is suspended at an await
LcSuspended ==
   \/ lc_op = "idle"
   \/ lc_op \in {"initialize", "add_specialist"} /\ lc_pending # << >>
   \/ lc_op = "cleanup"

\* list(self.specialist_agents.keys())
Keys(agents) == [i \in 1..Len(agents) |-> agents[i].agent_name]

\* self.specialist_agents[specialist.agent_name] = specialist : a dict keeps
\* the position of a key it already holds and replaces the value
Store(agents, specialist) ==
   IF \E i \in 1..Len(agents) : agents[i].agent_name = specialist.agent_name
   THEN [i \in 1..Len(agents) |->
            IF agents[i].agent_name = specialist.agent_name
            THEN specialist ELSE agents[i]]
   ELSE Append(agents, specialist)

\* get_active_specialists(): the list kept in state["active_specialists"]
get_active_specialists == active_specialists

\* the payload of the health endpoint
health_check ==
   [status |-> "healthy",
    message |-> "AutoMedAI is running with Phase 2 Agent Architecture!",
    active_specialists |-> get_active_specialists]

----------------------------------------------------------------------------
\* Registration: initialize, add_specialist, _initialize_specialist.

\* the lifecycle coroutine ends with an exception
LcRaise ==
   /\ lc_op' = "idle"
   /\ lc_queue' = << >>
   /\ lc_pending' = << >>
   /\ lc_outcome' = "raised"
   /\ UNCHANGED <<specialist_agents, active_specialists>>

\* StoreSpecialist without the refresh of state["active_specialists"] after
\* the last registration
StoreSpecialist_NoRefresh(op, specialist, rest) ==
   /\ specialist_agents' = Store(specialist_agents, specialist)
   /\ lc_pending' = << >>
   /\ lc_queue' = rest
   /\ UNCHANGED active_specialists
   /\ IF rest = << >>
      THEN /\ lc_op' = "idle"
           /\ lc_outcome' = "ok"
      ELSE /\ lc_op' = op
           /\ lc_outcome' = "running"

\* _initialize_specialist after the await: the agent is stored; the caller
\* then goes on to its next class or, after the last one, refreshes
\* state["active_specialists"] and returns
StoreSpecialist(op, specialist, rest) ==
   /\ specialist_agents' = Store(specialist_agents, specialist)
   /\ lc_pending' = << >>
   /\ lc_queue' = rest
   /\ IF rest = << >>
      THEN /\ active_specialists' = Keys(specialist_agents')
           /\ lc_op' = "idle"
           /\ lc_outcome' = "ok"
      ELSE /\ UNCHANGED active_specialists
           /\ lc_op' = op
           /\ lc_outcome' = "running"

\* _initialize_specialist with the store placed before the await of
\* specialist.initialize(): the agent is in the registry while its setup is
\* pending, and stays there when the setup raises
_initialize_specialist_StoreFirst(op, queue) ==
   LET specialist == NewAgent(Head(queue), next_id) IN
   /\ next_id' = next_id + 1
   /\ IF SetupSuspends(specialist.cls)
      THEN /\ lc_op' = op
           /\ lc_queue' = Tail(queue)
           /\ lc_pending' = <<specialist>>
           /\ lc_outcome' = "running"
           /\ specialist_agents' = Store(specialist_agents, specialist)
           /\ UNCHANGED active_specialists
      ELSE IF SetupFaults(specialist.cls)
      THEN LcRaise
      ELSE StoreSpecialist(op, specialist, Tail(queue))

\* _initialize_specialist(Head(queue)) up to the end of the await of
\* specialist.initialize(), or up to its suspension
_initialize_specialist(op, queue) ==
   LET specialist == NewAgent(Head(queue), next_id) IN
   /\ next_id' = next_id + 1
   /\ IF SetupSuspends(specialist.cls)
      THEN /\ lc_op' = op
           /\ lc_queue' = Tail(queue)
           /\ lc_pending' = <<specialist>>
           /\ lc_outcome' = "running"
           /\ UNCHANGED <<specialist_agents, active_specialists>>
      ELSE IF SetupFaults(specialist.cls)
      THEN LcRaise
      ELSE StoreSpecialist(op, specialist, Tail(queue))

\* history: a step that changes the registry after a request was made
ServiceChange ==
   changed_in_service' =
      \/ changed_in_service
      \/ n_cases > 0 /\ specialist_agents' # specialist_agents

\* CentralAgent.initialize, up to the store of its first class
initialize ==
   /\ lc_op = "idle" /\ pc = "idle"
   /\ n_inits < MaxInits
   /\ n_inits' = n_inits + 1
   /\ _initialize_specialist("initialize", InitializeClasses)
   /\ UNCHANGED <<cases_in_progress, total_cases_handled, cleanup_tasks,
                  reqVars, n_cases, n_adds, n_cleanups>>
   /\ lc_last' = "initialize"
   /\ ServiceChange
   /\ UNCHANGED <<aggVars, reports_returned, errors_returned,
                  retired_cases, flagged_requests, probeVars>>

\* CentralAgent.initialize, its next class
InitializeNext ==
   /\ lc_op = "initialize" /\ lc_pending = << >> /\ pc = "idle"
   /\ _initialize_specialist("initialize", lc_queue)
   /\ UNCHANGED <<cases_in_progress, total_cases_handled, cleanup_tasks,
                  reqVars, countVars>>
   /\ ServiceChange
   /\ UNCHANGED <<lc_last, aggVars, reports_returned, errors_returned,
                  retired_cases, flagged_requests, probeVars>>

\* CentralAgent.add_specialist(specialist_class)
add_specialist(specialist_class) ==
   /\ lc_op = "idle" /\ pc = "idle"
   /\ n_adds < MaxAdds
   /\ n_adds' = n_adds + 1
   /\ _initialize_specialist("add_specialist", <<specialist_class>>)
   /\ UNCHANGED <<cases_in_progress, total_cases_handled, cleanup_tasks,
                  reqVars, n_cases, n_inits, n_cleanups>>
   /\ lc_last' = "add_specialist"
   /\ ServiceChange
   /\ UNCHANGED <<aggVars, reports_returned, errors_returned,
                  retired_cases, flagged_requests, probeVars>>

\* the awaited specialist.initialize() completes or raises
SetupResume ==
   /\ lc_op \in {"initialize", "add_specialist"}
   /\ lc_pending # << >> /\ pc = "idle"
   /\ IF SetupFaults(lc_pending[1].cls)
      THEN LcRaise
      ELSE StoreSpecialist(lc_op, lc_pending[1], lc_queue)
   /\ UNCHANGED <<cases_in_progress, total_cases_handled, next_id,
                  cleanup_tasks, reqVars, countVars>>
   /\ ServiceChange
   /\ UNCHANGED <<lc_last, aggVars, reports_returned, errors_returned,
                  retired_cases, flagged_requests, probeVars>>

----------------------------------------------------------------------------
\* Teardown: CentralAgent.cleanup.

\* the sum of state["cases_handled"] over the General Practitioner agents of
\* a registry
RECURSIVE PrimaryCases(_)
PrimaryCases(agents) ==
   IF agents = << >> THEN 0
   ELSE (IF isinstance(Head(agents), "GeneralPractitionerAgent")
         THEN Head(agents).cases_handled ELSE 0)
        + PrimaryCases(Tail(agents))

\* cleanup_tasks = [agent.cleanup() for agent in specialist_agents.values()]
CleanupTasks(agents) ==
   [i \in 1..Len(agents) |->
      [id |-> agents[i].id, agent_name |-> agents[i].agent_name,
       cls |-> agents[i].cls, status |-> "pending", calls |-> 0]]

\* CentralAgent.cleanup up to the await of asyncio.gather; gather of no task
\* is done at once, and cleanup runs to its end
cleanup ==
   /\ lc_op = "idle" /\ pc = "idle"
   /\ n_cleanups < MaxCleanups
   /\ n_cleanups' = n_cleanups + 1
   /\ cleanup_tasks' = CleanupTasks(specialist_agents)
   /\ IF specialist_agents = << >>
      THEN /\ active_specialists' = << >>
           /\ lc_op' = "idle"
           /\ lc_outcome' = "ok"
      ELSE /\ UNCHANGED active_specialists
           /\ lc_op' = "cleanup"
           /\ lc_outcome' = "running"
   /\ UNCHANGED <<specialist_agents, cases_in_progress, total_cases_handled,
                  next_id, lc_queue, lc_pending, reqVars, n_cases, n_adds,
                  n_inits>>
   /\ lc_last' = "cleanup"
   /\ UNCHANGED <<aggVars, histVars, probeVars>>

\* the status of a task after the first step of agent.cleanup()
TeardownStatus(cls) ==
   IF TeardownSuspends(cls) THEN "running"
   ELSE IF TeardownFaults(cls) THEN "failed"
   ELSE "done"

\* TeardownStart as a loop "for agent: await agent.cleanup()" would do it: the
\* first agent.cleanup() that raises ends the pass, the agents after it are
\* never torn down
TeardownStart_StopsAtFault ==
   /\ lc_op = "cleanup" /\ pc = "idle"
   /\ \E i \in 1..Len(cleanup_tasks) : cleanup_tasks[i].status = "pending"
   /\ LET reached(i) ==
             \A j \in 1..(i - 1) : ~TeardownFaults(cleanup_tasks[j].cls)
      IN /\ cleanup_tasks' =
               [i \in 1..Len(cleanup_tasks) |->
                  IF reached(i)
                  THEN [cleanup_tasks[i] EXCEPT
                          !.calls = @ + 1,
                          !.status = TeardownStatus(cleanup_tasks[i].cls)]
                  ELSE cleanup_tasks[i]]
         /\ specialist_agents' =
               [k \in 1..Len(specialist_agents) |->
                  IF \E i \in 1..Len(cleanup_tasks) :
                        /\ cleanup_tasks[i].id = specialist_agents[k].id
                        /\ reached(i)
                  THEN [specialist_agents[k] EXCEPT !.torn_down = TRUE]
                  ELSE specialist_agents[k]]
   /\ UNCHANGED <<active_specialists, cases_in_progress, total_cases_handled,
                  next_id, lc_op, lc_queue, lc_pending, lc_outcome, reqVars,
                  countVars>>
   /\ UNCHANGED <<lc_last, aggVars, histVars, probeVars>>

\* gather has created one task per coroutine, one after the other, so their
\* first steps are next to each other in the ready queue of the event loop:
\* the loop runs the first step of every task, in the order of creation, with
\* nothing in between; each agent.cleanup() is invoked whether or not an
\* earlier one has raised
TeardownStart ==
   /\ lc_op = "cleanup" /\ pc = "idle"
   /\ \E i \in 1..Len(cleanup_tasks) : cleanup_tasks[i].status = "pending"
   /\ cleanup_tasks' =
         [i \in 1..Len(cleanup_tasks) |->
            [cleanup_tasks[i] EXCEPT
               !.calls = @ + 1,
               !.status = TeardownStatus(cleanup_tasks[i].cls)]]
   /\ specialist_agents' =
         [k \in 1..Len(specialist_agents) |->
            IF \E i \in 1..Len(cleanup_tasks) :
                  cleanup_tasks[i].id = specialist_agents[k].id
            THEN [specialist_agents[k] EXCEPT !.torn_down = TRUE]
            ELSE specialist_agents[k]]
   /\ UNCHANGED <<active_specialists, cases_in_progress, total_cases_handled,
                  next_id, lc_op, lc_queue, lc_pending, lc_outcome, reqVars,
                  countVars>>
   /\ UNCHANGED <<lc_last, aggVars, histVars, probeVars>>

\* a suspended agent.cleanup() completes or raises
TeardownFinish ==
   /\ pc = "idle"
   /\ \E i \in 1..Len(cleanup_tasks) :
         /\ cleanup_tasks[i].status = "running"
         /\ cleanup_tasks' =
               [cleanup_tasks EXCEPT
                  ![i].status =
                     IF TeardownFaults(cleanup_tasks[i].cls)
                     THEN "failed" ELSE "done"]
   /\ UNCHANGED <<coordVars, lc_op, lc_queue, lc_pending, lc_outcome,
                  reqVars, countVars>>
   /\ UNCHANGED <<lc_last, aggVars, histVars, probeVars>>

\* await asyncio.gather(*cleanup_tasks) ends: with the first exception of a
\* task (the other tasks keep running), or when every task is done; only in
\* the second case cleanup goes on to clear the registry
CleanupResume ==
   /\ lc_op = "cleanup" /\ pc = "idle"
   /\ \A i \in 1..Len(cleanup_tasks) : cleanup_tasks[i].status # "pending"
   /\ IF \E i \in 1..Len(cleanup_tasks) : cleanup_tasks[i].status = "failed"
      THEN /\ lc_outcome' = "raised"
           /\ UNCHANGED <<specialist_agents, active_specialists,
                          retired_cases>>
      ELSE /\ \A i \in 1..Len(cleanup_tasks) : cleanup_tasks[i].status = "done"
           /\ specialist_agents' = << >>
           /\ active_specialists' = << >>
           /\ retired_cases' =
                 retired_cases + PrimaryCases(specialist_agents)
           /\ lc_outcome' = "ok"
   /\ lc_op' = "idle"
   /\ UNCHANGED <<cases_in_progress, total_cases_handled, next_id, lc_queue,
                  lc_pending, cleanup_tasks, reqVars, countVars>>
   /\ ServiceChange
   /\ UNCHANGED <<lc_last, aggVars, reports_returned, errors_returned,
                  flagged_requests, probeVars>>

----------------------------------------------------------------------------
\* CentralAgent.query.  query is a plain (synchronous) method: once it has
\* started, nothing else runs until it has returned or raised.

\* FirstInstance taking the last agent that is an instance of base (the one
\* registered last) instead of the first
FirstInstance_Last(agents, base) ==
   IF \E i \in 1..Len(agents) : isinstance(agents[i], base)
   THEN CHOOSE i \in 1..Len(agents) :
           /\ isinstance(agents[i], base)
           /\ \A j \in (i + 1)..Len(agents) : ~isinstance(agents[j], base)
   ELSE 0

\* position of the first agent of specialist_agents.values() that is an
\* instance of base, 0 when there is none:  next((... if isinstance ...), None)
FirstInstance(agents, base) ==
   IF \E i \in 1..Len(agents) : isinstance(agents[i], base)
   THEN CHOOSE i \in 1..Len(agents) :
           /\ isinstance(agents[i], base)
           /\ \A j \in 1..(i - 1) : ~isinstance(agents[j], base)
   ELSE 0

\* position of the first mock specialist at or after position from, 0 when
\* there is none: the loop over specialist_agents.values()
NextMockSpecialist(agents, from) ==
   IF \E i \in from..Len(agents) : IsMockSpecialist(agents[i])
   THEN CHOOSE i \in from..Len(agents) :
           /\ IsMockSpecialist(agents[i])
           /\ \A j \in from..(i - 1) : ~IsMockSpecialist(agents[j])
   ELSE 0

\* EmergencyNeeded without the test of the needs_emergency_care flag
EmergencyNeeded_IgnoresFlag(assessment, agents) ==
   FirstInstance(agents, "EmergencyMedicineAgent") # 0

\* the test of the emergency branch:
\* initial_assessment.get("needs_emergency_care", False) and an
\* EmergencyMedicineAgent is found
EmergencyNeeded(assessment, agents) ==
   /\ Get(assessment, "needs_emergency_care", FALSE)
   /\ FirstInstance(agents, "EmergencyMedicineAgent") # 0

\* AfterSpecialists without the emergency branch
AfterSpecialists_NoEscalation(assessment, agents) ==
   "synthesize"

\* where query goes after the loop over the mock specialists
AfterSpecialists(assessment, agents) ==
   IF EmergencyNeeded(assessment, agents) THEN "emergency" ELSE "synthesize"

\* AfterAssessment with the emergency test made right after the primary
\* assessment, before the loop over the mock specialists
AfterAssessment_EmergencyFirst(assessment, agents, from) ==
   IF from = 1 /\ EmergencyNeeded(assessment, agents)
   THEN "emergency"
   ELSE IF NextMockSpecialist(agents, from) # 0
   THEN "specialists"
   ELSE AfterSpecialists(assessment, agents)

\* where query goes after the assessment of the agent at position from - 1
AfterAssessment(assessment, agents, from) ==
   IF NextMockSpecialist(agents, from) # 0
   THEN "specialists"
   ELSE AfterSpecialists(assessment, agents)

\* CountCase on a state dictionary that all agents share (a class attribute)
CountCase_Shared(agents, i) ==
   [k \in 1..Len(agents) |-> [agents[k] EXCEPT !.cases_handled = @ + 1]]

\* a query method that leaves its cases_handled counter as it was
CountCase_NotCounted(agents, i) ==
   agents

\* the first statement of every query method: state["cases_handled"] += 1
CountCase(agents, i) ==
   [agents EXCEPT ![i].cases_handled = @ + 1]

\* query starts: self.state["cases_in_progress"] += 1
QueryStart(s) ==
   /\ pc = "idle" /\ LcSuspended
   /\ n_cases < MaxCases
   /\ n_cases' = n_cases + 1
   /\ cases_in_progress' = cases_in_progress + 1
   /\ pc' = "gp"
   /\ symptoms' = s
   /\ patient_id' = "patient-" \o ToString(n_cases + 1)
   /\ initial_assessment' = << >>
   /\ specialist_assessments' = << >>
   /\ cursor' = 1
   /\ invoked' = << >>
   /\ fault' = "none"
   /\ response' = << >>
   /\ UNCHANGED <<specialist_agents, active_specialists, total_cases_handled,
                  next_id, lcVars, n_adds, n_inits, n_cleanups>>
   /\ UNCHANGED <<aggVars, histVars, probeVars>>

\* QueryGP without the test "if not gp": with no General Practitioner the
\* query goes on with an empty initial assessment
QueryGP_NoCheck ==
   /\ pc = "gp"
   /\ LET g == FirstInstance(specialist_agents, "GeneralPractitionerAgent") IN
      IF g = 0
      THEN /\ initial_assessment' = << << >> >>
           /\ pc' = AfterAssessment(<< >>, specialist_agents, 1)
           /\ UNCHANGED <<specialist_agents, fault, invoked>>
      ELSE /\ specialist_agents' = CountCase(specialist_agents, g)
           /\ invoked' = Append(invoked, specialist_agents[g].id)
           /\ IF QueryFaults(specialist_agents[g].cls)
              THEN /\ fault' = "HandlerFault"
                   /\ pc' = "finally"
                   /\ UNCHANGED initial_assessment
              ELSE /\ initial_assessment' =
                         <<Finding(specialist_agents[g], symptoms)>>
                   /\ pc' = AfterAssessment(initial_assessment'[1],
                                            specialist_agents, 1)
                   /\ UNCHANGED fault
   /\ UNCHANGED <<active_specialists, cases_in_progress, total_cases_handled,
                  next_id, lcVars, symptoms, patient_id,
                  specialist_assessments, cursor, response, countVars>>
   /\ flagged_requests' =
         flagged_requests
         + (IF /\ initial_assessment' # << >>
               /\ Get(initial_assessment'[1], "needs_emergency_care", FALSE)
            THEN 1 ELSE 0)
   /\ UNCHANGED <<aggVars, reports_returned, errors_returned, retired_cases,
                  changed_in_service,
                  probeVars>>

\* QueryGP with the loop over the mock specialists run before the lookup of
\* the General Practitioner: with none registered, every mock specialist has
\* been called when the error is raised
QueryGP_LateCheck ==
   /\ pc = "gp"
   /\ LET g == FirstInstance(specialist_agents, "GeneralPractitionerAgent") IN
      IF g = 0
      THEN /\ fault' = "ValueError"
           /\ pc' = "finally"
           /\ specialist_agents' =
                 [i \in 1..Len(specialist_agents) |->
                    IF IsMockSpecialist(specialist_agents[i])
                    THEN [specialist_agents[i] EXCEPT !.cases_handled = @ + 1]
                    ELSE specialist_agents[i]]
           /\ UNCHANGED <<initial_assessment, invoked>>
      ELSE /\ specialist_agents' = CountCase(specialist_agents, g)
           /\ invoked' = Append(invoked, specialist_agents[g].id)
           /\ IF QueryFaults(specialist_agents[g].cls)
              THEN /\ fault' = "HandlerFault"
                   /\ pc' = "finally"
                   /\ UNCHANGED initial_assessment
              ELSE /\ initial_assessment' =
                         <<Finding(specialist_agents[g], symptoms)>>
                   /\ pc' = AfterAssessment(initial_assessment'[1],
                                            specialist_agents, 1)
                   /\ UNCHANGED fault
   /\ UNCHANGED <<active_specialists, cases_in_progress, total_cases_handled,
                  next_id, lcVars, symptoms, patient_id,
                  specialist_assessments, cursor, response, countVars>>
   /\ flagged_requests' =
         flagged_requests
         + (IF /\ initial_assessment' # << >>
               /\ Get(initial_assessment'[1], "needs_emergency_care", FALSE)
            THEN 1 ELSE 0)
   /\ UNCHANGED <<aggVars, reports_returned, errors_returned, retired_cases,
                  changed_in_service,
                  probeVars>>

\* the lookup of the General Practitioner and gp.query
QueryGP ==
   /\ pc = "gp"
   /\ LET g == FirstInstance(specialist_agents, "GeneralPractitionerAgent") IN
      IF g = 0
      THEN /\ fault' = "ValueError"
           /\ pc' = "finally"
           /\ UNCHANGED <<specialist_agents, initial_assessment, invoked>>
      ELSE /\ specialist_agents' = CountCase(specialist_agents, g)
           /\ invoked' = Append(invoked, specialist_agents[g].id)
           /\ IF QueryFaults(specialist_agents[g].cls)
              THEN /\ fault' = "HandlerFault"
                   /\ pc' = "finally"
                   /\ UNCHANGED initial_assessment
              ELSE /\ initial_assessment' =
                         <<Finding(specialist_agents[g], symptoms)>>
                   /\ pc' = AfterAssessment(initial_assessment'[1],
                                            specialist_agents, 1)
                   /\ UNCHANGED fault
   /\ UNCHANGED <<active_specialists, cases_in_progress, total_cases_handled,
                  next_id, lcVars, symptoms, patient_id,
                  specialist_assessments, cursor, response, countVars>>
   /\ flagged_requests' =
         flagged_requests
         + (IF /\ initial_assessment' # << >>
               /\ Get(initial_assessment'[1], "needs_emergency_care", FALSE)
            THEN 1 ELSE 0)
   /\ UNCHANGED <<aggVars, reports_returned, errors_returned, retired_cases,
                  changed_in_service,
                  probeVars>>

\* one turn of the loop over the mock specialists: agent.query and append
QuerySpecialist ==
   /\ pc = "specialists"
   /\ LET i == NextMockSpecialist(specialist_agents, cursor) IN
      /\ specialist_agents' = CountCase(specialist_agents, i)
      /\ invoked' = Append(invoked, specialist_agents[i].id)
      /\ cursor' = i + 1
      /\ IF QueryFaults(specialist_agents[i].cls)
         THEN /\ fault' = "HandlerFault"
              /\ pc' = "finally"
              /\ UNCHANGED specialist_assessments
         ELSE /\ specialist_assessments' =
                    Append(specialist_assessments,
                           Finding(specialist_agents[i], symptoms))
              /\ pc' = AfterAssessment(initial_assessment[1],
                                       specialist_agents, i + 1)
              /\ UNCHANGED fault
   /\ UNCHANGED <<active_specialists, cases_in_progress, total_cases_handled,
                  next_id, lcVars, symptoms, patient_id, initial_assessment,
                  response, countVars>>
   /\ UNCHANGED <<aggVars, histVars, probeVars>>

\* QueryEmergency putting the emergency assessment at the front of the list
\* instead of at its end
QueryEmergency_Prepends ==
   /\ pc = "emergency"
   /\ LET e == FirstInstance(specialist_agents, "EmergencyMedicineAgent") IN
      /\ specialist_agents' = CountCase(specialist_agents, e)
      /\ invoked' = Append(invoked, specialist_agents[e].id)
      /\ IF QueryFaults(specialist_agents[e].cls)
         THEN /\ fault' = "HandlerFault"
              /\ pc' = "finally"
              /\ UNCHANGED specialist_assessments
         ELSE /\ specialist_assessments' =
                    <<Finding(specialist_agents[e], symptoms)>>
                    \o specialist_assessments
              /\ pc' = "synthesize"
              /\ UNCHANGED fault
   /\ UNCHANGED <<active_specialists, cases_in_progress, total_cases_handled,
                  next_id, lcVars, symptoms, patient_id, initial_assessment,
                  cursor, response, countVars>>
   /\ UNCHANGED <<aggVars, histVars, probeVars>>

\* the emergency branch: emergency.query and append
QueryEmergency ==
   /\ pc = "emergency"
   /\ LET e == FirstInstance(specialist_agents, "EmergencyMedicineAgent") IN
      /\ specialist_agents' = CountCase(specialist_agents, e)
      /\ invoked' = Append(invoked, specialist_agents[e].id)
      /\ IF QueryFaults(specialist_agents[e].cls)
         THEN /\ fault' = "HandlerFault"
              /\ pc' = "finally"
              /\ UNCHANGED specialist_assessments
         ELSE /\ specialist_assessments' =
                    Append(specialist_assessments,
                           Finding(specialist_agents[e], symptoms))
              /\ pc' = "synthesize"
              /\ UNCHANGED fault
   /\ UNCHANGED <<active_specialists, cases_in_progress, total_cases_handled,
                  next_id, lcVars, symptoms, patient_id, initial_assessment,
                  cursor, response, countVars>>
   /\ UNCHANGED <<aggVars, histVars, probeVars>>

\* QuerySynthesize with state["total_cases_handled"] += 1 placed before the
\* call of synthesize_findings: a request the aggregator fails is counted
QuerySynthesize_CountsFirst ==
   /\ pc = "synthesize"
   /\ total_cases_handled' = total_cases_handled + 1
   /\ IF SynthesisFaults(specialist_assessments)
      THEN /\ fault' = "AggregatorFault"
           /\ UNCHANGED response
      ELSE /\ response' =
                 <<[case_id |-> patient_id,
                    initial_assessment |-> initial_assessment[1],
                    specialist_assessments |-> specialist_assessments,
                    synthesis |->
                       synthesize_findings(symptoms, specialist_assessments,
                                           patient_id),
                    coordinating_agent |-> "central-coordinator"]>>
           /\ UNCHANGED fault
   /\ pc' = "finally"
   /\ UNCHANGED <<specialist_agents, active_specialists, cases_in_progress,
                  next_id, lcVars, symptoms, patient_id, initial_assessment,
                  specialist_assessments, cursor, invoked, countVars>>
   /\ UNCHANGED <<aggVars, histVars, probeVars>>

\* synthesize_findings, the response, state["total_cases_handled"] += 1
QuerySynthesize ==
   /\ pc = "synthesize"
   /\ IF SynthesisFaults(specialist_assessments)
      THEN /\ fault' = "AggregatorFault"
           /\ UNCHANGED <<response, total_cases_handled>>
      ELSE /\ response' =
                 <<[case_id |-> patient_id,
                    initial_assessment |-> initial_assessment[1],
                    specialist_assessments |-> specialist_assessments,
                    synthesis |->
                       synthesize_findings(symptoms, specialist_assessments,
                                           patient_id),
                    coordinating_agent |-> "central-coordinator"]>>
           /\ total_cases_handled' = total_cases_handled + 1
           /\ UNCHANGED fault
   /\ pc' = "finally"
   /\ UNCHANGED <<specialist_agents, active_specialists, cases_in_progress,
                  next_id, lcVars, symptoms, patient_id, initial_assessment,
                  specialist_assessments, cursor, invoked, countVars>>
   /\ UNCHANGED <<aggVars, histVars, probeVars>>

\* QueryFinally with the decrement at the end of the try body instead of in a
\* finally clause: an exception skips it
QueryFinally_NotOnFault ==
   /\ pc = "finally"
   /\ cases_in_progress' =
         IF fault = "none" THEN cases_in_progress - 1 ELSE cases_in_progress
   /\ pc' = "returned"
   /\ UNCHANGED <<specialist_agents, active_specialists, total_cases_handled,
                  next_id, lcVars, symptoms, patient_id, initial_assessment,
                  specialist_assessments, cursor, invoked, fault, response,
                  countVars>>
   /\ UNCHANGED <<aggVars, histVars, probeVars>>

\* the finally clause: self.state["cases_in_progress"] -= 1, then query
\* returns the response or the exception propagates
QueryFinally ==
   /\ pc = "finally"
   /\ cases_in_progress' = cases_in_progress - 1
   /\ pc' = "returned"
   /\ UNCHANGED <<specialist_agents, active_specialists, total_cases_handled,
                  next_id, lcVars, symptoms, patient_id, initial_assessment,
                  specialist_assessments, cursor, invoked, fault, response,
                  countVars>>
   /\ UNCHANGED <<aggVars, histVars, probeVars>>

\* the caller has the result, a response or an exception; the locals of
\* the call are gone
QueryEnd ==
   /\ pc = "returned"
   /\ pc' = "idle"
   /\ reports_returned' = reports_returned + (IF fault = "none" THEN 1 ELSE 0)
   /\ errors_returned' = errors_returned + (IF fault = "none" THEN 0 ELSE 1)
   /\ UNCHANGED <<retired_cases, flagged_requests, changed_in_service>>
   /\ symptoms' = << >>
   /\ patient_id' = ""
   /\ initial_assessment' = << >>
   /\ specialist_assessments' = << >>
   /\ cursor' = 0
   /\ invoked' = << >>
   /\ fault' = "none"
   /\ response' = << >>
   /\ UNCHANGED <<coordVars, lcVars, countVars>>
   /\ UNCHANGED <<aggVars, probeVars>>

----------------------------------------------------------------------------
Next ==
   \/ initialize
   \/ InitializeNext
   \/ \E c \in AddClasses : add_specialist(c)
   \/ SetupResume
   \/ cleanup
   \/ TeardownStart
   \/ TeardownFinish
   \/ CleanupResume
   \/ \E s \in SymptomTexts : QueryStart(s)
   \/ QueryGP
   \/ QuerySpecialist
   \/ QueryEmergency
   \/ QuerySynthesize
   \/ QueryFinally
   \/ QueryEnd

Spec == Init /\ [][Next]_vars

----------------------------------------------------------------------------
\* The application of main.py: initialize at startup, a diagnose request
\* calls query with any text, cleanup at shutdown; add_specialist is never
\* called.  With the agents initialize registers, query never takes its
\* emergency branch.

AllTexts ==
   {TextScenario, TextUpper, TextLate, TextStraddle, TextDiscomfort,
    TextHeadache, TextEmpty}

NextApp ==
   \/ initialize
   \/ InitializeNext
   \/ cleanup
   \/ TeardownStart
   \/ CleanupResume
   \/ \E s \in AllTexts : QueryStart(s)
   \/ QueryGP
   \/ QuerySpecialist
   \/ QuerySynthesize
   \/ QueryFinally
   \/ QueryEnd

SpecApp == Init /\ [][NextApp]_vars

----------------------------------------------------------------------------
\* The request boundary of main.py in front of a Coordinator whose registry
\* may hold a faulty agent: diagnose_patient calls query, answers with the
\* report or turns the exception into an HTTPException, and the next request
\* is served.

\* str(e) of the exception query raised
ErrorText(f) ==
   CASE f = "ValueError" -> "No General Practitioner agent available"
     [] f = "HandlerFault" -> "message of the exception of the agent"
     [] f = "AggregatorFault" ->
           "'NoneType' object has no attribute 'lower'"
     [] OTHER -> ""

\* diagnose_patient without the patient_id in the detail of its HTTPException
diagnose_patient_NoRequestId ==
   IF fault = "none"
   THEN [status_code |-> 200, body |-> response[1]]
   ELSE [status_code |-> 500,
         detail |->
            [error |->
                "Failed to process diagnosis request due to an internal error.",
             details |-> ErrorText(fault)]]

\* what diagnose_patient answers once query has returned or raised: the
\* report (FastAPI sends it with status 200), or an HTTPException
diagnose_patient ==
   IF fault = "none"
   THEN [status_code |-> 200, body |-> response[1]]
   ELSE [status_code |-> 500,
         detail |->
            [patient_id |-> patient_id,
             error |->
                "Failed to process diagnosis request due to an internal error.",
             details |-> ErrorText(fault)]]

\* the classes add_specialist is called with in front of the boundary: two
\* that make a request fail, the shipped ones that replace them, and a
\* General Practitioner whose assessments ask for emergency care
ServeClasses ==
   {"FaultyNeuro", "NeuroBotMock", "NullCardio", "CardioBotMock", "UrgentGP"}

\* a diagnose request arrives: diagnose_patient calls query, which starts
DiagnoseRequest(s) ==
   /\ pc = "idle" /\ LcSuspended
   /\ n_cases < MaxRequests
   /\ n_cases' = n_cases + 1
   /\ cases_in_progress' = cases_in_progress + 1
   /\ pc' = "gp"
   /\ symptoms' = s
   /\ patient_id' = "patient-" \o ToString(n_cases + 1)
   /\ initial_assessment' = << >>
   /\ specialist_assessments' = << >>
   /\ cursor' = 1
   /\ invoked' = << >>
   /\ fault' = "none"
   /\ response' = << >>
   /\ UNCHANGED <<specialist_agents, active_specialists, total_cases_handled,
                  next_id, lcVars, n_adds, n_inits, n_cleanups>>
   /\ UNCHANGED <<aggVars, histVars, probeVars>>

NextServe ==
   \/ initialize
   \/ InitializeNext
   \/ \E c \in ServeClasses : add_specialist(c)
   \/ cleanup
   \/ TeardownStart
   \/ CleanupResume
   \/ \E s \in SymptomTexts : DiagnoseRequest(s)
   \/ QueryGP
   \/ QuerySpecialist
   \/ QueryEmergency
   \/ QuerySynthesize
   \/ QueryFinally
   \/ QueryEnd

SpecServe == Init /\ [][NextServe]_vars

----------------------------------------------------------------------------
\* synthesize_findings called directly, on any list of findings.

\* the findings the lists are made of: from the cardiac agent and from
\* another one; a hypothesis with "chest pain", with "CHEST PAIN", without;
\* the confidence under "confidence" (0 included), under "confidence_mock",
\* under both, or missing;
\* a finding without agent_name and one without hypothesis
SampleFindings ==
   {[agent_name |-> a, hypothesis |-> h, confidence |-> "0.3",
     details |-> "details"] :
       a \in {"CardioBotMock", "NeuroBotMock"},
       h \in {TextScenario, TextUpper, TextDiscomfort}}
   \cup
   {[agent_name |-> a, hypothesis |-> h, confidence_mock |-> "0.4",
     details |-> "details"] :
       a \in {"CardioBotMock", "NeuroBotMock"},
       h \in {TextScenario, TextUpper, TextDiscomfort}}
   \cup
   {[agent_name |-> a, hypothesis |-> h] :
       a \in {"CardioBotMock", "NeuroBotMock"},
       h \in {TextScenario, TextUpper, TextDiscomfort}}
   \cup
   {[hypothesis |-> TextScenario, confidence |-> "0.3"],
    [agent_name |-> "NeuroBotMock", hypothesis |-> TextDiscomfort,
     confidence |-> "0", confidence_mock |-> "0.4"],
    [agent_name |-> "NeuroBotMock", hypothesis |-> TextDiscomfort,
     confidence |-> "0.3", confidence_mock |-> "0.4"],
    [agent_name |-> "CardioBotMock", confidence |-> "0.3"],
    [agent_name |-> "CardioBotMock", hypothesis |-> NoneText,
     confidence |-> "0.3"]}

FindingLists ==
   UNION {[1..n -> SampleFindings] : n \in 0..MaxFindings}

InitAgg ==
   /\ InitCoordinator
   /\ agg_findings \in FindingLists
   /\ agg_result = << >>
   /\ probe_agent = << >>
   /\ probe_calls = << >>

\* reasoning_agent.synthesize_findings(symptoms, agg_findings, patient_id)
Synthesize ==
   /\ agg_result = << >>
   /\ agg_result' =
         IF SynthesisFaults(agg_findings)
         THEN <<[raised |-> "AttributeError"]>>
         ELSE <<synthesize_findings(TextScenario, agg_findings, "patient-0")>>
   /\ UNCHANGED <<coordVars, lcVars, reqVars, countVars, agg_findings,
                  histVars, probeVars>>

NextAgg == Synthesize

SpecAgg == InitAgg /\ [][NextAgg]_vars

----------------------------------------------------------------------------
\* The query of one agent called directly, several times, with any text and
\* any patient_id.

\* the patient_id arguments of the direct calls
ProbeIds == {"patient-1", "patient-2"}

\* an agent of one of the shipped classes, just constructed
InitProbe ==
   /\ InitCoordinator
   /\ agg_findings = << >>
   /\ agg_result = << >>
   /\ \E cls \in ShippedClasses : probe_agent = <<NewAgent(cls, 0)>>
   /\ probe_calls = << >>

\* agent.query(s, pid): state["cases_handled"] += 1, then the finding; the
\* patient_id goes to the log only
ProbeQuery(s, pid) ==
   /\ Len(probe_calls) < MaxCalls
   /\ probe_agent' = CountCase(probe_agent, 1)
   /\ probe_calls' =
         Append(probe_calls,
                [symptoms |-> s, patient_id |-> pid,
                 cases_handled |-> probe_agent'[1].cases_handled,
                 finding |-> Finding(probe_agent'[1], s)])
   /\ UNCHANGED <<coordVars, lcVars, reqVars, countVars, aggVars, histVars>>

NextProbe == \E s \in AllTexts, pid \in ProbeIds : ProbeQuery(s, pid)

SpecProbe == InitProbe /\ [][NextProbe]_vars

----------------------------------------------------------------------------
\* Properties.

\* query is between its first statement and its finally clause
InQuery == pc \in {"gp", "specialists", "emergency", "synthesize", "finally"}

\* C1: cases_in_progress is incremented once when query starts and
\* decremented once on every exit path (return, no General Practitioner, a
\* fault of an agent): it is 1 while a query runs, 0 whenever no query runs,
\* and never negative.
C1_InFlightBalanced ==
   /\ cases_in_progress >= 0
   /\ InQuery => cases_in_progress = 1
   /\ ~InQuery => cases_in_progress = 0

\* a query has ended with the fault of an agent that an earlier agent's
\* assessment preceded
C1_Witness ==
   /\ pc = "returned"
   /\ fault = "HandlerFault"
   /\ Len(invoked) > 1

\* query has reached its return statement: the response is built
Completed == pc \in {"finally", "returned"} /\ response # << >>

\* the registered agents that are parallel specialists (instances of one of
\* the three mock classes)
ParallelSpecialists ==
   {i \in 1..Len(specialist_agents) :
      BaseClass(specialist_agents[i].cls)
         \in {"CardioBotMock", "NeuroBotMock", "OrthoBotMock"}}

\* an escalation handler (an EmergencyMedicineAgent) is registered
EscalationRegistered ==
   \E i \in 1..Len(specialist_agents) :
      BaseClass(specialist_agents[i].cls) = "EmergencyMedicineAgent"

\* this request has called the query of an escalation handler
EscalationInvoked ==
   \E k \in 1..Len(invoked) : \E i \in 1..Len(specialist_agents) :
      /\ specialist_agents[i].id = invoked[k]
      /\ BaseClass(specialist_agents[i].cls) = "EmergencyMedicineAgent"

\* the findings of the response that an escalation handler wrote
EscalationFindings ==
   {k \in 1..Len(specialist_assessments) :
      Get(specialist_assessments[k], "specialty", None) = "EmergencyMedicine"}

\* the escalation flag of the primary assessment
EscalationFlag ==
   /\ initial_assessment # << >>
   /\ Get(initial_assessment[1], "needs_emergency_care", FALSE)

\* C2: the specialist_assessments list of a completed request has one
\* finding per registered parallel specialist, plus one if and only if the
\* escalation handler was invoked.
C2_ListLength ==
   Completed =>
      Len(response[1].specialist_assessments) =
         Cardinality(ParallelSpecialists)
         + (IF EscalationInvoked THEN 1 ELSE 0)

\* a request completed with three parallel findings and no escalation
C2_Witness ==
   /\ Completed
   /\ Cardinality(ParallelSpecialists) = 3
   /\ ~EscalationInvoked
   /\ Len(response[1].specialist_assessments) = 3

\* the agent this request called last is of a class whose query raises
LastInvokedFaults ==
   /\ invoked # << >>
   /\ \E i \in 1..Len(specialist_agents) :
         /\ specialist_agents[i].id = invoked[Len(invoked)]
         /\ QueryFaults(specialist_agents[i].cls)

\* C3: in a completed request the escalation handler is invoked, and its
\* finding is in the report (once, at the end), if and only if the primary
\* assessment has needs_emergency_care true and an escalation handler is
\* registered; so the flag changes the length of the list by exactly one
\* when an escalation handler is there, and by nothing when there is none: a
\* request with the flag set and no escalation handler ends with its report,
\* unless an agent's query or the aggregator raised.
C3_EscalationIff ==
   /\ Completed =>
         /\ EscalationInvoked <=> (EscalationFlag /\ EscalationRegistered)
         /\ EscalationFindings =
               IF EscalationFlag /\ EscalationRegistered
               THEN {Len(specialist_assessments)} ELSE {}
         /\ Len(response[1].specialist_assessments)
               - Cardinality(ParallelSpecialists) =
               IF EscalationFlag /\ EscalationRegistered THEN 1 ELSE 0
   /\ (pc = "returned" /\ EscalationFlag /\ ~EscalationRegistered)
      => \/ fault = "none" /\ response # << >>
         \/ fault = "HandlerFault" /\ LastInvokedFaults
         \/ fault = "AggregatorFault" /\ SynthesisFaults(specialist_assessments)

\* a request completed with the flag set and the escalation finding last
C3_Witness ==
   /\ Completed
   /\ EscalationFlag /\ EscalationRegistered
   /\ Cardinality(ParallelSpecialists) = 3
   /\ Len(response[1].specialist_assessments) = 4
   /\ EscalationFindings = {4}

\* a General Practitioner (primary assessor) is registered
PrimaryRegistered ==
   \E i \in 1..Len(specialist_agents) :
      BaseClass(specialist_agents[i].cls) = "GeneralPractitionerAgent"

\* C4: a query made while no primary assessor is registered ends with the
\* "No General Practitioner agent available" error: no agent is called, no
\* response is built, and the request is not tried again.
C4_NoPrimaryAssessor ==
   (pc \in {"specialists", "emergency", "synthesize", "finally", "returned"}
      /\ ~PrimaryRegistered)
   => /\ pc \in {"finally", "returned"}
      /\ fault = "ValueError"
      /\ response = << >>
      /\ initial_assessment = << >>
      /\ specialist_assessments = << >>
      /\ invoked = << >>

\* a query has failed for want of a primary assessor while other agents were
\* registered
C4_Witness ==
   /\ pc = "returned"
   /\ ~PrimaryRegistered
   /\ specialist_agents # << >>
   /\ fault = "ValueError"

\* C5: once the teardown of a cleanup pass has begun, agent.cleanup() has
\* been invoked exactly once for each agent that was registered when cleanup
\* was called, whether or not one of them has raised.
C5_TeardownOnce ==
   /\ \A i \in 1..Len(cleanup_tasks) : cleanup_tasks[i].calls <= 1
   /\ (\E i \in 1..Len(cleanup_tasks) : cleanup_tasks[i].status # "pending")
      => \A i \in 1..Len(cleanup_tasks) : cleanup_tasks[i].calls = 1
   /\ lc_op = "cleanup" =>
         /\ Len(cleanup_tasks) = Len(specialist_agents)
         /\ \A i \in 1..Len(cleanup_tasks) :
               cleanup_tasks[i].id = specialist_agents[i].id

\* cleanup has raised: the teardown of one agent failed, and the agent
\* registered after it was torn down all the same
C5_Witness ==
   /\ lc_op = "idle" /\ lc_last = "cleanup" /\ lc_outcome = "raised"
   /\ \E i, j \in 1..Len(cleanup_tasks) :
         /\ i < j
         /\ cleanup_tasks[i].status = "failed"
         /\ cleanup_tasks[j].calls = 1

\* C6: when cleanup has been called and control is back at its caller, every
\* teardown has finished, and the registry and the list of active
\* identifiers are empty, also when a teardown raised.
C6_ClearedAfterCleanup ==
   (lc_op = "idle" /\ lc_last = "cleanup")
   => /\ specialist_agents = << >>
      /\ active_specialists = << >>
      /\ \A i \in 1..Len(cleanup_tasks) :
            cleanup_tasks[i].status \in {"done", "failed"}

\* C7: the agent stored under an identifier is never replaced by the
\* registration of another agent with the same identifier (the registration
\* fails and leaves the registry as it was).
C7_NoOverwrite ==
   [][\A i \in 1..Len(specialist_agents) :
         (/\ i <= Len(specialist_agents')
          /\ specialist_agents'[i].agent_name = specialist_agents[i].agent_name)
         => specialist_agents'[i].id = specialist_agents[i].id]_vars

\* the last element of a sequence
Last(seq) == seq[Len(seq)]

\* C10: a call of an agent's query adds one to the cases_handled of that
\* agent and changes nothing else: not the state of another agent, not the
\* order or the names of the registry, not the Coordinator's counters.
C10_QueryFrame ==
   [][Len(invoked') = Len(invoked) + 1 =>
         /\ \E i \in 1..Len(specialist_agents) :
               /\ specialist_agents[i].id = Last(invoked')
               /\ specialist_agents' =
                     [specialist_agents EXCEPT ![i].cases_handled = @ + 1]
         /\ UNCHANGED <<active_specialists, cases_in_progress,
                        total_cases_handled>>]_vars

\* the primary assessor has been called once, the parallel specialists of
\* the registry not yet
C10_Witness ==
   /\ pc = "specialists"
   /\ Len(invoked) = 1
   /\ \E i \in 1..Len(specialist_agents) :
         /\ specialist_agents[i].id = invoked[1]
         /\ specialist_agents[i].cases_handled = 1
   /\ \E i \in ParallelSpecialists : specialist_agents[i].cases_handled = 0

\* the upper-case form of a letter of "chest pain"
UpperChar(c) ==
   CASE c = "c" -> "C" [] c = "h" -> "H" [] c = "e" -> "E" [] c = "s" -> "S"
     [] c = "t" -> "T" [] c = "p" -> "P" [] c = "a" -> "A" [] c = "i" -> "I"
     [] c = "n" -> "N" [] OTHER -> c

\* text holds the phrase "chest pain" at some position, each letter in
\* either case
MentionsChestPain(text) ==
   \E k \in 1..Len(text) :
      /\ k + Len(CHEST_PAIN) - 1 <= Len(text)
      /\ \A j \in 1..Len(CHEST_PAIN) :
            text[k + j - 1] \in {CHEST_PAIN[j], UpperChar(CHEST_PAIN[j])}

\* some finding of the list is the cardiac agent's and mentions chest pain
CardiacFindingMentionsChestPain(findings) ==
   \E k \in 1..Len(findings) :
      /\ "agent_name" \in DOMAIN findings[k]
      /\ findings[k].agent_name = "CardioBotMock"
      /\ "hypothesis" \in DOMAIN findings[k]
      /\ findings[k].hypothesis # NoneText
      /\ MentionsChestPain(findings[k].hypothesis)

\* C8: for every list of findings, the triage recommendation is the cardiac
\* one if some finding of the agent named CardioBotMock mentions "chest
\* pain" in any case, and the default one otherwise; a hypothesis with
\* "chest pain" from another agent does not count.
C8_TriageRule ==
   (agg_result # << >> /\ "raised" \notin DOMAIN agg_result[1]) =>
      agg_result[1].triage_recommendation_mock =
         IF CardiacFindingMentionsChestPain(agg_findings)
         THEN TriageCardiac ELSE TriageDefault

\* synthesize_findings has returned the default recommendation for a list in
\* which only another agent than the cardiac one mentions chest pain, next
\* to a cardiac finding that does not
C8_Witness ==
   /\ agg_result # << >>
   /\ "raised" \notin DOMAIN agg_result[1]
   /\ agg_result[1].triage_recommendation_mock = TriageDefault
   /\ Len(agg_findings) = 2
   /\ agg_findings[1] =
         [agent_name |-> "NeuroBotMock", hypothesis |-> TextUpper,
          confidence |-> "0.3", details |-> "details"]
   /\ agg_findings[2] =
         [agent_name |-> "CardioBotMock", hypothesis |-> TextDiscomfort,
          confidence |-> "0.3", details |-> "details"]

\* C9: when a request whose text mentions chest pain (anywhere in the text)
\* completes with the cardiac specialist registered, the report has a
\* finding of CardioBotMock whose hypothesis contains "chest pain" and its
\* triage recommendation is the cardiac one.
C9_ChestPainEndToEnd ==
   (/\ Completed
    /\ \E i \in 1..Len(specialist_agents) :
          BaseClass(specialist_agents[i].cls) = "CardioBotMock"
    /\ MentionsChestPain(symptoms))
   => /\ \E k \in 1..Len(response[1].specialist_assessments) :
            /\ response[1].specialist_assessments[k].agent_name
                  = "CardioBotMock"
            /\ Contains(response[1].specialist_assessments[k].hypothesis,
                        CHEST_PAIN)
      /\ response[1].synthesis.triage_recommendation_mock = TriageCardiac

\* a request whose text has "chest pain" after its first 50 characters has
\* completed with the cardiac recommendation
C9_Witness ==
   /\ Completed
   /\ symptoms = TextLate
   /\ ~MentionsChestPain(Slice(symptoms, SliceLen))
   /\ response[1].synthesis.triage_recommendation_mock = TriageCardiac

\* the registry positions of the parallel specialists, in registry order
RECURSIVE ParallelPositions(_)
ParallelPositions(n) ==
   IF n = 0 THEN << >>
   ELSE IF n \in ParallelSpecialists
        THEN Append(ParallelPositions(n - 1), n)
        ELSE ParallelPositions(n - 1)

\* the registry position of the first escalation handler
EscalationPosition ==
   CHOOSE i \in 1..Len(specialist_agents) :
      /\ BaseClass(specialist_agents[i].cls) = "EmergencyMedicineAgent"
      /\ \A j \in 1..(i - 1) :
            BaseClass(specialist_agents[j].cls) # "EmergencyMedicineAgent"

\* the registry positions whose agents wrote the findings of a report, in
\* the order the claim gives: the parallel specialists in the order of the
\* registry, then the escalation handler when it was invoked
ReportPositions ==
   ParallelPositions(Len(specialist_agents))
   \o (IF EscalationInvoked THEN <<EscalationPosition>> ELSE << >>)

\* C11: in every report the findings of the parallel specialists come first,
\* in the insertion order of the registry, and the finding of the escalation
\* handler, when there is one, comes last, wherever the escalation handler
\* stands in the registry; the agents were called in that same order, after
\* the primary assessor.
C11_FindingOrder ==
   Completed =>
      /\ Len(response[1].specialist_assessments) = Len(ReportPositions)
      /\ \A k \in 1..Len(ReportPositions) :
            /\ response[1].specialist_assessments[k].agent_name =
                  specialist_agents[ReportPositions[k]].agent_name
            /\ invoked[k + 1] = specialist_agents[ReportPositions[k]].id

\* a report whose last finding is that of an escalation handler registered
\* before the three parallel specialists
C11_Witness ==
   /\ Completed
   /\ EscalationInvoked
   /\ Cardinality(ParallelSpecialists) = 3
   /\ \A i \in ParallelSpecialists : EscalationPosition < i
   /\ Get(response[1].specialist_assessments[4], "specialty", None)
         = "EmergencyMedicine"

\* C12: total_cases_handled is the number of requests that have reached
\* their return statement: the requests that have handed a response to
\* their caller, plus the one whose response is built and on its way; a
\* request that ends with an error is not counted, and the counter never
\* exceeds the number of requests made.
C12_CountsReports ==
   /\ total_cases_handled =
         reports_returned + (IF Completed THEN 1 ELSE 0)
   /\ total_cases_handled + errors_returned
         + (IF pc # "idle" /\ ~Completed THEN 1 ELSE 0) = n_cases
   /\ (pc = "returned" /\ fault # "none") => response = << >>

\* a request has returned its report and is the one request counted
C12_Witness ==
   /\ pc = "returned"
   /\ response # << >>
   /\ reports_returned = 0
   /\ total_cases_handled = 1

\* the registry positions of the agents this request has called
InvokedPositions ==
   {i \in 1..Len(specialist_agents) :
      \E k \in 1..Len(invoked) : invoked[k] = specialist_agents[i].id}

\* the parallel specialists this request called and whose query raised
FaultedParallel ==
   {i \in ParallelSpecialists \cap InvokedPositions :
      QueryFaults(specialist_agents[i].cls)}

\* the primary assessor this request called, when its query raised
FaultedPrimary ==
   {i \in InvokedPositions :
      /\ BaseClass(specialist_agents[i].cls) = "GeneralPractitionerAgent"
      /\ QueryFaults(specialist_agents[i].cls)}

\* C13: when the query of a parallel specialist raises, the request goes on:
\* the other parallel specialists are still called, and the request ends
\* with a report that holds their findings and omits that of the faulty one;
\* when the query of the primary assessor raises, the request fails.
C13_ParallelFaultNonFatal ==
   /\ (pc = "returned" /\ FaultedParallel # {}) =>
         /\ ParallelSpecialists \subseteq InvokedPositions
         /\ response # << >>
         /\ \A i \in ParallelSpecialists \ FaultedParallel :
               \E k \in 1..Len(specialist_assessments) :
                  specialist_assessments[k].agent_name =
                     specialist_agents[i].agent_name
   /\ (pc = "returned" /\ FaultedPrimary # {}) =>
         /\ fault = "HandlerFault"
         /\ response = << >>

\* C14: two calls of the query of one agent with the same symptom text
\* return the same hypothesis and the same confidence, whatever their
\* patient_id and whatever the number of cases the agent had handled.
C14_Deterministic ==
   \A i, j \in 1..Len(probe_calls) :
      probe_calls[i].symptoms = probe_calls[j].symptoms =>
         /\ probe_calls[i].finding.hypothesis =
               probe_calls[j].finding.hypothesis
         /\ probe_calls[i].finding.confidence =
               probe_calls[j].finding.confidence

\* the neurology mock has been called twice with the same text about a
\* headache, for two patients
C14_Witness ==
   /\ Len(probe_calls) = 2
   /\ probe_agent[1].cls = "NeuroBotMock"
   /\ probe_calls[1].symptoms = TextHeadache
   /\ probe_calls[2].symptoms = TextHeadache
   /\ probe_calls[1].patient_id # probe_calls[2].patient_id
   /\ probe_calls[1].cases_handled # probe_calls[2].cases_handled

\* the elements of a sequence
Range(seq) == {seq[i] : i \in 1..Len(seq)}

\* C15: in every reachable state, the states between the registrations of
\* initialize and the states after a cleanup with a failed teardown
\* included, get_active_specialists (and so the health endpoint) returns
\* exactly the identifiers stored in the registry.
C15_ListMatchesRegistry ==
   Range(health_check.active_specialists) = Range(Keys(specialist_agents))

\* C15 as amended: whenever a call can be made (the event loop is free: no
\* initialize is between two of its registrations), get_active_specialists
\* returns exactly the identifiers stored in the registry; this includes
\* the states in which a registration or the teardown is suspended and the
\* states after a cleanup in which a teardown failed.
C15_ListMatchesAtCall ==
   LcSuspended =>
      Range(health_check.active_specialists) = Range(Keys(specialist_agents))

\* cleanup has raised for a failed teardown and has left agents in the
\* registry; the health endpoint can be called
C15_Witness ==
   /\ LcSuspended /\ pc = "idle"
   /\ lc_last = "cleanup" /\ lc_outcome = "raised"
   /\ specialist_agents # << >>
   /\ Len(health_check.active_specialists) = Len(specialist_agents)

\* the parts of the summary synthesize_findings returned that are of kind
NumParts(kind) ==
   Cardinality({k \in 1..Len(agg_result[1].overall_summary) :
                  agg_result[1].overall_summary[k].part = kind})

\* C16: the summary for an empty list of findings has the line "No
\* specialist agent reports were provided." (once, after the section line)
\* and no report block; the summary for a non-empty list has no such line
\* and one report block per finding.
C16_NoReportsLine ==
   (agg_result # << >> /\ "raised" \notin DOMAIN agg_result[1]) =>
      /\ NumParts("no_reports") = (IF agg_findings = << >> THEN 1 ELSE 0)
      /\ NumParts("report") = Len(agg_findings)
      /\ agg_findings = << >> =>
            Last(agg_result[1].overall_summary) = [part |-> "no_reports"]

\* synthesize_findings has returned for the empty list
C16_Witness ==
   /\ agg_findings = << >>
   /\ agg_result # << >>
   /\ NumParts("no_reports") = 1

\* the registry is correctly populated: a primary assessor is registered
\* and every registered agent is of a class of specialist_agents.py
CorrectRegistry ==
   /\ PrimaryRegistered
   /\ \A i \in 1..Len(specialist_agents) :
         specialist_agents[i].cls \in ShippedClasses

\* C17: when query raises, diagnose_patient answers with status 500 and a
\* detail that holds the request id, the generic message and the text of
\* the exception; the process goes on serving: a request made after failed
\* ones, with the registry correctly populated, is answered with its report,
\* and no failed request is left in the in-flight counter.
C17_BoundaryError ==
   /\ (pc = "returned" /\ fault # "none") =>
         diagnose_patient =
            [status_code |-> 500,
             detail |->
                [patient_id |-> patient_id,
                 error |->
                    "Failed to process diagnosis request due to an internal error.",
                 details |-> ErrorText(fault)]]
   /\ (pc = "returned" /\ errors_returned > 0 /\ CorrectRegistry) =>
         /\ response # << >>
         /\ diagnose_patient = [status_code |-> 200, body |-> response[1]]
   /\ (pc = "idle" /\ errors_returned > 0) => cases_in_progress = 0

\* a request has failed, and a later request has been answered with its
\* report
C17_Witness ==
   /\ pc = "returned"
   /\ errors_returned > 0
   /\ CorrectRegistry
   /\ diagnose_patient.status_code = 200

\* C18: an agent is stored in the registry only once its setup routine has
\* completed: no registered agent is the one whose initialize() is still
\* awaited, none is of a class whose initialize() raises, and so no request
\* has called such an agent.
C18_SetupBeforeStore ==
   /\ \A i \in 1..Len(specialist_agents) :
         /\ ~SetupFaults(specialist_agents[i].cls)
         /\ lc_pending # << >> =>
               specialist_agents[i].id # lc_pending[1].id
   /\ lc_pending # << >> =>
         \A k \in 1..Len(invoked) : invoked[k] # lc_pending[1].id

\* a request is calling the registered agents while the setup of an agent
\* being added is pending
C18_Witness ==
   /\ lc_op = "add_specialist"
   /\ lc_pending # << >>
   /\ pc = "specialists"
   /\ Len(invoked) = 1
   /\ Cardinality(ParallelSpecialists) = 3

\* the class of specialist_agents.py of the k-th agent this request called
InvokedBase(k) ==
   BaseClass(specialist_agents[
      CHOOSE i \in 1..Len(specialist_agents) :
         specialist_agents[i].id = invoked[k]].cls)

\* C19: the steps of a request come in the order primary assessment,
\* parallel specialists, escalation (when triggered), synthesis, response:
\* the first agent called is the primary assessor and no other call is made
\* to one; the escalation handler is called last, after every parallel
\* specialist; synthesize_findings is reached, and the response built, only
\* when every parallel specialist and the escalation handler, when
\* triggered, have been called and have returned their findings.
C19_StepOrder ==
   /\ pc = "gp" => invoked = << >> /\ initial_assessment = << >>
   /\ (pc \in {"specialists", "emergency", "synthesize"} \/ Completed) =>
         /\ initial_assessment # << >>
         /\ invoked # << >>
   /\ \A k \in 1..Len(invoked) :
         /\ (InvokedBase(k) = "GeneralPractitionerAgent") <=> (k = 1)
         /\ InvokedBase(k) = "EmergencyMedicineAgent" =>
               /\ k = Len(invoked)
               /\ ParallelSpecialists \subseteq InvokedPositions
               /\ pc \notin {"specialists", "emergency"}
   /\ pc = "emergency" =>
         /\ ParallelSpecialists \subseteq InvokedPositions
         /\ Len(specialist_assessments) = Cardinality(ParallelSpecialists)
   /\ (pc = "synthesize" \/ Completed) =>
         /\ ParallelSpecialists \subseteq InvokedPositions
         /\ (EscalationFlag /\ EscalationRegistered) => EscalationInvoked
         /\ Len(specialist_assessments) = Len(invoked) - 1

\* the primary assessor, three parallel specialists and the escalation
\* handler have been called, and synthesize_findings is next
C19_Witness ==
   /\ pc = "synthesize"
   /\ Len(invoked) = 5
   /\ InvokedBase(1) = "GeneralPractitionerAgent"
   /\ InvokedBase(5) = "EmergencyMedicineAgent"

\* C20: in every request that has got past the primary assessment, each
\* registered parallel specialist has been called exactly once when the
\* request ends, whatever the primary assessment says (its escalation flag
\* in particular), and the finding of each one whose query returned is in
\* the list of assessments.
C20_AllParallelInvoked ==
   (pc = "returned" /\ initial_assessment # << >>) =>
      \A i \in ParallelSpecialists :
         /\ Cardinality({k \in 1..Len(invoked) :
                           invoked[k] = specialist_agents[i].id}) = 1
         /\ ~QueryFaults(specialist_agents[i].cls) =>
               \E k \in 1..Len(specialist_assessments) :
                  specialist_assessments[k].agent_name =
                     specialist_agents[i].agent_name

\* the registry positions of the agents that are instances of base
Instances(base) ==
   {i \in 1..Len(specialist_agents) :
      BaseClass(specialist_agents[i].cls) = base}

\* of the agents of role base, this request has called at most one, and the
\* one it has called is the one registered first (the oldest identity)
OnlyFirstInvoked(base) ==
   /\ Cardinality({k \in 1..Len(invoked) : InvokedBase(k) = base}) <= 1
   /\ \A i \in Instances(base) \cap InvokedPositions :
         \A j \in Instances(base) :
            specialist_agents[i].id <= specialist_agents[j].id

C22_CountsNeverDecrease ==
   [][\A i \in 1..Len(specialist_agents) :
         \A j \in 1..Len(specialist_agents') :
            specialist_agents'[j].agent_name = specialist_agents[i].agent_name
            => specialist_agents'[j].cases_handled
                  >= specialist_agents[i].cases_handled]_vars

\* the report block of the k-th finding in the summary synthesize_findings
\* returned (the blocks follow the header, the symptoms and section lines)
BlockOf(k) == agg_result[1].overall_summary[k + 3]

\* C23: the confidence shown in the report block of a finding is the value
\* of its field "confidence" whenever the finding has that field, 0
\* included; the value of "confidence_mock" exactly when it has no field
\* "confidence" and has that one; "N/A" exactly when it has neither.
C23_ShownConfidence ==
   (agg_result # << >> /\ "raised" \notin DOMAIN agg_result[1]) =>
      \A k \in 1..Len(agg_findings) :
         LET f == agg_findings[k] IN
         /\ BlockOf(k).part = "report"
         /\ "confidence" \in DOMAIN f => BlockOf(k).confidence = f.confidence
         /\ ("confidence" \notin DOMAIN f /\ "confidence_mock" \in DOMAIN f)
               <=> (/\ "confidence_mock" \in DOMAIN f
                    /\ BlockOf(k).confidence = f.confidence_mock)
         /\ ("confidence" \notin DOMAIN f /\ "confidence_mock" \notin DOMAIN f)
               <=> BlockOf(k).confidence = "N/A"

\* the summary shows the confidence 0 of a finding that also has a secondary
\* confidence, and the secondary confidence of a finding without a primary
\* one
C23_Witness ==
   /\ agg_result # << >>
   /\ "raised" \notin DOMAIN agg_result[1]
   /\ Len(agg_findings) = 2
   /\ "confidence_mock" \in DOMAIN agg_findings[1]
   /\ "confidence" \in DOMAIN agg_findings[1]
   /\ BlockOf(1).confidence = "0"
   /\ "confidence" \notin DOMAIN agg_findings[2]
   /\ BlockOf(2).confidence = "0.4"

\* C24: a request made while no primary assessor is registered changes, from
\* its first step to its last, neither the state of any registered agent
\* (its cases_handled in particular) nor total_cases_handled, and calls no
\* agent; when it has ended with its error, cases_in_progress is back at
\* the value it had before the request.
C24_FailedRequestFrame ==
   [][(~PrimaryRegistered /\ (pc # "idle" \/ pc' # "idle")) =>
         /\ UNCHANGED <<specialist_agents, total_cases_handled,
                        active_specialists>>
         /\ invoked' = << >>
         /\ pc' = "returned" =>
               /\ fault' = "ValueError"
               /\ cases_in_progress' = 0
         /\ pc' = "idle" =>
               /\ errors_returned' = errors_returned + 1
               /\ cases_in_progress' = 0]_vars

\* a request has failed for want of a primary assessor with a parallel
\* specialist in the registry, whose count is untouched
C24_Witness ==
   /\ pc = "returned"
   /\ fault = "ValueError"
   /\ ~PrimaryRegistered
   /\ \E i \in ParallelSpecialists : specialist_agents[i].cases_handled = 0
   /\ total_cases_handled = 0
   /\ cases_in_progress = 0

\* C25: a request that fails after agents were called is not rolled back: the
\* agents it called keep their incremented cases_handled while
\* total_cases_handled is not incremented (it stays the number of reports
\* returned); so total_cases_handled is at most the sum of the cases_handled
\* of the primary assessors registered so far, those that cleanup has dropped
\* from the registry included.
C25_NoRollback ==
   /\ total_cases_handled <= retired_cases + PrimaryCases(specialist_agents)
   /\ (pc \in {"finally", "returned"} /\ fault # "none") =>
         /\ \A i \in InvokedPositions :
               specialist_agents[i].cases_handled >= 1
         /\ total_cases_handled = reports_returned

\* a request has failed after the primary assessor and a parallel specialist
\* were called, and the Coordinator counts fewer cases than the primary
\* assessors do
C25_Witness ==
   /\ pc = "returned"
   /\ fault = "HandlerFault"
   /\ Len(invoked) >= 2
   /\ \A i \in InvokedPositions : specialist_agents[i].cases_handled >= 1
   /\ total_cases_handled < retired_cases + PrimaryCases(specialist_agents)

\* C26: no agent is asked for a finding after its cleanup method has been
\* called: every agent called by the request in hand has not been torn down
\* (cleanup returned, raised, or is suspended waiting for the teardowns).
C26_NoQueryAfterTeardown ==
   \A i \in InvokedPositions : ~specialist_agents[i].torn_down

\* the registry holds the agents of one complete initialize, and at most a
\* General Practitioner added next to them, none of which faults; it has
\* not changed since the first request, and no request or registry
\* operation is under way
SettledRegistry ==
   /\ pc = "idle" /\ lc_op = "idle"
   /\ n_inits = 1 /\ n_cleanups = 0
   /\ ~changed_in_service
   /\ \A c \in ShippedClasses :
         \E i \in 1..Len(specialist_agents) : specialist_agents[i].cls = c
   /\ \A i \in 1..Len(specialist_agents) :
         specialist_agents[i].cls \in ShippedClasses \cup {"UrgentGP"}

\* C27: with a registry populated once by initialize and not changed since,
\* and no agent faulting, after k requests total_cases_handled, the
\* cases_handled of the primary assessor and that of each parallel
\* specialist are all k (every request returned a report), and the
\* cases_handled of the escalation handler is the number of requests whose
\* initial assessment had needs_emergency_care true.
C27_CountersAgree ==
   SettledRegistry =>
      LET g == FirstInstance(specialist_agents, "GeneralPractitionerAgent")
          e == FirstInstance(specialist_agents, "EmergencyMedicineAgent")
      IN /\ total_cases_handled = n_cases
         /\ reports_returned = n_cases
         /\ errors_returned = 0
         /\ specialist_agents[g].cases_handled = n_cases
         /\ \A i \in ParallelSpecialists :
               specialist_agents[i].cases_handled = n_cases
         /\ specialist_agents[e].cases_handled = flagged_requests
         /\ flagged_requests <= n_cases
         /\ cases_in_progress = 0

\* two requests were served from a settled registry, both with an initial
\* assessment that asked for emergency care
C27_Witness ==
   /\ SettledRegistry
   /\ n_cases = 2
   /\ total_cases_handled = 2
   /\ flagged_requests = 2
   /\ \E i \in 1..Len(specialist_agents) :
         /\ specialist_agents[i].cls = "EmergencyMedicineAgent"
         /\ specialist_agents[i].cases_handled = 2
   /\ \A i \in ParallelSpecialists : specialist_agents[i].cases_handled = 2

\* C28: with the agents that initialize registers, the emergency branch is
\* never taken: whatever the symptom text, the initial assessment of the
\* General Practitioner has needs_emergency_care false, query never comes to
\* the call of the EmergencyMedicineAgent, whose cases_handled stays 0, and
\* every report holds exactly three findings, those of CardioBotMock,
\* NeuroBotMock and OrthoBotMock.
C28_NoEscalation ==
   /\ initial_assessment # << >> =>
         ~Get(initial_assessment[1], "needs_emergency_care", FALSE)
   /\ flagged_requests = 0
   /\ pc # "emergency"
   /\ \A i \in 1..Len(specialist_agents) :
         /\ BaseClass(specialist_agents[i].cls) = "EmergencyMedicineAgent"
               => specialist_agents[i].cases_handled = 0
         /\ specialist_agents[i].id \in Range(invoked)
               => BaseClass(specialist_agents[i].cls)
                     # "EmergencyMedicineAgent"
   /\ Completed =>
         /\ Len(response[1].specialist_assessments) = 3
         /\ {response[1].specialist_assessments[k].agent_name : k \in 1..3}
               = {"CardioBotMock", "NeuroBotMock", "OrthoBotMock"}

\* a request that mentions chest pain was served by the agents of
\* initialize: three findings, the EmergencyMedicineAgent registered and
\* never called
C28_Witness ==
   /\ pc = "returned" /\ Completed
   /\ MentionsChestPain(symptoms)
   /\ Len(response[1].specialist_assessments) = 3
   /\ \E i \in 1..Len(specialist_agents) :
         /\ specialist_agents[i].cls = "EmergencyMedicineAgent"
         /\ specialist_agents[i].cases_handled = 0
   /\ response[1].synthesis.triage_recommendation_mock = TriageCardiac

====
